---- MODULE Spec2Model ----
(***************************************************************************)
(* A model of the Bloom filter of src/src/lib.rs (crate `bloom`).          *)
(*                                                                         *)
(* The filter is a Vec<u64> used as a bit array, a bit count and a hash    *)
(* count.  `new` sizes the filter with f64 arithmetic; insert / contains   *)
(* address bits by double hashing over two 64-bit SipHash-1-3 digests with *)
(* wrapping u64 arithmetic.                                                *)
(*                                                                         *)
(* TLC's integers are 32 bits wide, so every 64-bit (or wider) quantity of *)
(* the program is a little-endian sequence of base-256 limbs ("Big"), and  *)
(* the arithmetic of the program is carried out on limbs.  Quantities that *)
(* index the word array (bit_count, the word count, hash_fn_count) are     *)
(* kept as plain integers in the state: every filter that is allocated in  *)
(* this model is small enough for that.                                    *)
(*                                                                         *)
(* Target: 64-bit (usize = u64).  Whether integer overflow is checked is a  *)
(* choice of the build profile: with overflow checks (debug) an overflow   *)
(* panics, without them (release) it wraps; new is modelled under both.    *)
(***************************************************************************)
EXTENDS Integers, Sequences, FiniteSets, TLC

(***************************************************************************)
(* Unsigned arithmetic on little-endian base-256 limb sequences.           *)
(***************************************************************************)

\* Limb i (1-based) of a, zero beyond its length.
Limb(a, i) == IF i <= Len(a) THEN a[i] ELSE 0

Max2(x, y) == IF x >= y THEN x ELSE y

\* a without its high zero limbs; zero is the empty sequence.
RECURSIVE Trim(_)
Trim(a) ==
    IF Len(a) = 0 THEN a
    ELSE IF a[Len(a)] = 0 THEN Trim(SubSeq(a, 1, Len(a) - 1))
    ELSE a

\* The limbs of a small non-negative integer.
RECURSIVE FromInt(_)
FromInt(n) == IF n = 0 THEN << >> ELSE <<n % 256>> \o FromInt(n \div 256)

\* The integer a limb sequence stands for (only for values below 2^31).
RECURSIVE ToInt(_)
ToInt(a) == IF Len(a) = 0 THEN 0 ELSE a[1] + 256 * ToInt(Tail(a))

\* a padded with zero limbs, or cut, to exactly n limbs (a mod 256^n).
Fix(a, n) == [i \in 1..n |-> Limb(a, i)]

RECURSIVE AddFrom(_, _, _, _)
AddFrom(a, b, i, carry) ==
    IF i > Max2(Len(a), Len(b))
    THEN (IF carry = 0 THEN << >> ELSE <<carry>>)
    ELSE LET s == Limb(a, i) + Limb(b, i) + carry
         IN  <<s % 256>> \o AddFrom(a, b, i + 1, s \div 256)

BigAdd(a, b) == Trim(AddFrom(a, b, 1, 0))

\* -1, 0, 1 as a < b, a = b, a > b; compares from limb i downwards.
RECURSIVE CmpFrom(_, _, _)
CmpFrom(a, b, i) ==
    IF i = 0 THEN 0
    ELSE IF Limb(a, i) < Limb(b, i) THEN -1
    ELSE IF Limb(a, i) > Limb(b, i) THEN 1
    ELSE CmpFrom(a, b, i - 1)

BigCmp(a, b) == CmpFrom(a, b, Max2(Len(a), Len(b)))
BigGE(a, b) == BigCmp(a, b) >= 0
BigEq(a, b) == BigCmp(a, b) = 0

\* a - b for a >= b.
RECURSIVE SubFrom(_, _, _, _)
SubFrom(a, b, i, borrow) ==
    IF i > Len(a) THEN << >>
    ELSE LET d == Limb(a, i) - Limb(b, i) - borrow
         IN  IF d < 0 THEN <<d + 256>> \o SubFrom(a, b, i + 1, 1)
             ELSE <<d>> \o SubFrom(a, b, i + 1, 0)

BigSub(a, b) == Trim(SubFrom(a, b, 1, 0))

\* Column c (1-based) of the schoolbook product: the sum of a[i] * b[c+1-i]
\* over the i from i on for which both limbs exist.
RECURSIVE ColSum(_, _, _, _)
ColSum(a, b, c, i) ==
    IF i > c \/ i > Len(a) THEN 0
    ELSE a[i] * b[c + 1 - i] + ColSum(a, b, c, i + 1)

RECURSIVE MulFrom(_, _, _, _)
MulFrom(a, b, c, carry) ==
    IF c > Len(a) + Len(b) THEN << >>
    ELSE LET s == ColSum(a, b, c, Max2(1, c + 1 - Len(b))) + carry
         IN  <<s % 256>> \o MulFrom(a, b, c + 1, s \div 256)

BigMul(a, b) == Trim(MulFrom(a, b, 1, 0))

\* a * 256^n.
ShiftLimbs(a, n) == IF Len(a) = 0 THEN a ELSE [i \in 1..n |-> 0] \o a

\* Bit j (0-based) of a.
Pow2(e) == IF e = 0 THEN 1 ELSE IF e = 1 THEN 2 ELSE IF e = 2 THEN 4
           ELSE IF e = 3 THEN 8 ELSE IF e = 4 THEN 16 ELSE IF e = 5 THEN 32
           ELSE IF e = 6 THEN 64 ELSE 128
Bit(a, j) == (Limb(a, j \div 8 + 1) \div Pow2(j % 8)) % 2

\* The quotient digit and the remainder of r by d, for r < 256 * d: the
\* multiples d * 2^t are taken off r from t = 7 down to t = 0, and q collects
\* the 2^t taken.
RECURSIVE DigitFrom(_, _, _, _)
DigitFrom(r, d, t, q) ==
    IF t < 0 THEN [q |-> q, r |-> r]
    ELSE IF BigGE(r, BigMul(d, <<Pow2(t)>>))
         THEN DigitFrom(BigSub(r, BigMul(d, <<Pow2(t)>>)), d, t - 1, q + Pow2(t))
         ELSE DigitFrom(r, d, t - 1, q)

\* Long division of a by d (d > 0), one limb at a time from the most
\* significant limb i of a downwards; q and r are the quotient and remainder
\* of the limbs already consumed, dg the digit and remainder of the current
\* limb.  Leading zero digits of q are dropped.
RECURSIVE DivFrom(_, _, _, _, _)
RECURSIVE DivStep(_, _, _, _, _)
DivFrom(a, d, i, q, r) ==
    IF i = 0 THEN [q |-> q, r |-> r]
    ELSE DivStep(a, d, i, q, DigitFrom(Trim(<<a[i]>> \o r), d, 7, 0))

DivStep(a, d, i, q, dg) ==
    IF dg.q = 0 /\ Len(q) = 0
    THEN DivFrom(a, d, i - 1, << >>, dg.r)
    ELSE DivFrom(a, d, i - 1, <<dg.q>> \o q, dg.r)

DivRem(a, d) == DivFrom(a, d, Len(a), << >>, << >>)
BigDiv(a, d) == DivRem(a, d).q
BigMod(a, d) == DivRem(a, d).r

\* ceil(a / d) for d > 0, from the quotient and remainder qr.
CeilOf(qr) == IF Len(qr.r) = 0 THEN qr.q ELSE BigAdd(qr.q, <<1>>)
BigCeilDiv(a, d) == CeilOf(DivRem(a, d))

(***************************************************************************)
(* Machine integers and the f64 values of the sizing step.                 *)
(***************************************************************************)

\* u64::MAX / usize::MAX and u32::MAX.
U64_MAX == <<255, 255, 255, 255, 255, 255, 255, 255>>
U32_MAX == <<255, 255, 255, 255>>

\* `x as u64` and `x as u32` for a non-negative integral f64 x: the cast
\* saturates at the type's maximum.
AsU64(v) == IF Len(v) > 8 THEN U64_MAX ELSE v
AsU32(v) == IF Len(v) > 4 THEN U32_MAX ELSE v

\* A u64 / usize result s of + or *: with overflow checks a result beyond
\* 2^64 - 1 panics, without them it wraps modulo 2^64.
Checked(s, checks) == [overflow |-> Len(s) > 8 /\ checks, value |-> Trim(Fix(s, 8))]
CheckedAdd(a, b, checks) == Checked(BigAdd(a, b), checks)
CheckedMul(a, b, checks) == Checked(BigMul(a, b), checks)

\* u64::wrapping_add and u64::wrapping_mul.
WrappingAdd(a, b) == Trim(Fix(BigAdd(a, b), 8))
WrappingMul(a, b) == Trim(Fix(BigMul(a, b), 8))

\* A real number v >= 0 in fixed point with 64 fraction bits is the integer
\* v * 2^64.  The f64 values below are exact in this format.
Q64(a) == ShiftLimbs(a, 8)

\* std::f64::consts::LN_2 = 0x1.62e42fefa39efp-1 = 0.6931471805599453.
LN_2 == <<0, 120, 207, 209, 247, 23, 114, 177>>

\* f64::ln at the rates of this model, as -ln(p) in Q64:
\*   ln(0.01) = -4.605170185988091     ln(0.5) = -0.6931471805599453
\*   ln(0.1)  = -2.3025850929940455
\* A rate is the pair <<num, den>> standing for the f64 nearest num / den;
\* <<0, 0>> is NaN.  Only rates that pass the range check reach f64::ln.
NegLn(p) ==
    IF p = <<1, 100>> THEN <<0, 64, 69, 85, 237, 110, 236, 154, 4>>
    ELSE IF p = <<1, 2>> THEN <<0, 120, 207, 209, 247, 23, 114, 177>>
    ELSE <<0, 160, 162, 170, 118, 55, 118, 77, 2>>

\* The range check without its strictness: p >= 0.0 && p <= 1.0.
RateInRangeClosed(p) == p[2] > 0 /\ p[1] >= 0 /\ p[1] <= p[2]

\* p > 0.0 && p < 1.0 (both comparisons are false of NaN).
RateInRange(p) == p[2] > 0 /\ p[1] > 0 /\ p[1] < p[2]

(***************************************************************************)
(* BloomFilter::new.  The f64 expressions are evaluated in exact arithmetic *)
(* on the same operands (no intermediate rounding to 53 bits): on the      *)
(* inputs of this model the value under ceil() is far enough from an       *)
(* integer for the two to agree.                                           *)
(***************************************************************************)

PanicExpectedItems == "Expected items must be greater than 0."
PanicRate == "False positive rate must be between 0.0 and 1.0, exclusive."
PanicHashCount == "Hash count must be greater than 0."
PanicAddOverflow == "attempt to add with overflow"
PanicMulOverflow == "attempt to multiply with overflow"
PanicRemZero == "attempt to calculate the remainder with a divisor of zero"

FalsePositiveRate(num, den) == [kind |-> "FalsePositiveRate", p |-> <<num, den>>]
HashCount(k) == [kind |-> "HashCount", k |-> k]

\* The FalsePositiveRate arm: m = ceil(-(n * ln p) / (ln 2 * ln 2)) as u64 and,
\* from that m, k = ceil((m / n) * ln 2) as u32.  RateMOverLn2 is m with a
\* denominator of ln 2 alone.
RateMOverLn2(n, p) ==
    AsU64(BigCeilDiv(BigMul(n, NegLn(p)), LN_2))

RateM(n, p) ==
    AsU64(BigCeilDiv(Q64(BigMul(n, NegLn(p))), BigMul(LN_2, LN_2)))

RateK(n, m) == AsU32(BigCeilDiv(BigMul(m, LN_2), Q64(n)))

RateMK(n, m) == [panic |-> "", m |-> m, k |-> RateK(n, m)]

SizingRate(n, p) ==
    IF ~RateInRange(p) THEN [panic |-> PanicRate] ELSE RateMK(n, RateM(n, p))

\* The HashCount arm with k derived from m as in the FalsePositiveRate arm.
SizingHashCountDerived(n, k) ==
    IF ~(k > 0) THEN [panic |-> PanicHashCount]
    ELSE RateMK(n, AsU64(BigCeilDiv(Q64(BigMul(FromInt(k), n)), LN_2)))

\* The HashCount arm: m = ceil((k * n) / ln 2) as u64, and k as given.
SizingHashCount(n, k) ==
    IF ~(k > 0) THEN [panic |-> PanicHashCount]
    ELSE [panic |-> "", k |-> FromInt(k),
          m |-> AsU64(BigCeilDiv(Q64(BigMul(FromInt(k), n)), LN_2))]

\* The match on params: the pair (m, k), or the panic of a failed assert!.
Sizing(n, sizing) ==
    IF sizing.kind = "FalsePositiveRate"
    THEN SizingRate(n, sizing.p)
    ELSE SizingHashCount(n, sizing.k)

\* Rounding m up to whole u64 words: num_u64s = (m + 63) / 64 and
\* true_bit_count = num_u64s * 64, each step from the result of the one before.
RoundCount(num_u64s, true_bit_count) ==
    IF true_bit_count.overflow THEN [panic |-> PanicMulOverflow]
    ELSE [panic |-> "", num_u64s |-> num_u64s, bit_count |-> true_bit_count.value]

RoundWords(num_u64s, checks) ==
    RoundCount(num_u64s, CheckedMul(num_u64s, <<64>>, checks))

RoundSum(sum, checks) ==
    IF sum.overflow THEN [panic |-> PanicAddOverflow]
    ELSE RoundWords(BigDiv(sum.value, <<64>>), checks)

WordRounding(m, checks) == RoundSum(CheckedAdd(m, <<63>>, checks), checks)

\* The struct literal: the fields of the filter from the rounding w and k.
Filter(w, k) ==
    IF w.panic # "" THEN w
    ELSE [panic |-> "", num_u64s |-> w.num_u64s, bit_count |-> w.bit_count,
          hash_fn_count |-> k]

Sized(mk, checks) ==
    IF mk.panic # "" THEN mk ELSE Filter(WordRounding(mk.m, checks), mk.k)

\* The result of new(n, sizing): a panic message, or the fields of the filter
\* (the word count, bit_count and hash_fn_count).
New(n, sizing, checks) ==
    IF ~(Len(n) > 0) THEN [panic |-> PanicExpectedItems]
    ELSE Sized(Sizing(n, sizing), checks)

(***************************************************************************)
(* The inputs of the model.                                                *)
(***************************************************************************)

\* The number of items of ItemAt that are inserted and queried.
MaxItems == 3

\* The items (of type str); "seen", "also seen" and "unseen" are those of
\* test_insert_and_contains.
ItemAt == <<"seen", "item484", "also seen", "unseen", "item2095", "item2249">>
Items == {ItemAt[n] : n \in 1..MaxItems}

\* The arguments of new: expected_items (0, 1, 100 and usize::MAX) and params.
ExpectedItems == {<< >>, <<1>>, <<100>>, U64_MAX}
Rates == {<<0, 1>>, <<1, 1>>, <<-1, 2>>, <<3, 2>>, <<0, 0>>, <<1, 100>>, <<1, 2>>}
HashCounts == {0, 1, 7}
Params == {FalsePositiveRate(p[1], p[2]) : p \in Rates}
              \cup {HashCount(k) : k \in HashCounts}

(***************************************************************************)
(* The state: the arguments new was called with, the fields of the filter, *)
(* and what the last call returned.                                        *)
(***************************************************************************)
VARIABLES
    pc,               \* "start": before new; "live": a filter exists;
                      \* "panicked": a call panicked and the thread unwound
    panic,            \* the panic message, "" when there is none
    expected_items,   \* the arguments of new
    params,
    bit_vec,          \* Vec<u64>: a sequence of words, each 8 limbs
    capacity,         \* bit_vec.capacity()
    bit_count,        \* u64
    hash_fn_count,    \* u32
    inserted,         \* history: the items inserted since the last clear
    answers,          \* history: the pairs <<item, result>> of the contains
                      \* calls since the last insert or clear
    ret,              \* the last call and its return value
    readers           \* per reader thread: the &self call it is executing,
                      \* its loop position and, once done, its result

vars == <<pc, panic, expected_items, params, bit_vec,
          capacity, bit_count, hash_fn_count, inserted, answers, ret, readers>>

geometry == <<capacity, bit_count, hash_fn_count>>
ctor_args == <<expected_items, params>>

ZeroWord == <<0, 0, 0, 0, 0, 0, 0, 0>>
NoRet == [op |-> "none", item |-> "", value |-> 0]
NoArgs == [kind |-> "none"]

\* The threads that call the &self methods of one shared filter.
MaxReaders == 2
Readers == 1..MaxReaders

\* A reader that is executing no call.
Idle == [call |-> "idle", item |-> "", i |-> 0, done |-> FALSE,
         found |-> FALSE, number |-> 0]

\* No shared borrow of the filter is live: a &mut self method can be called.
NoReaders == \A t \in Readers : readers[t] = Idle

Init ==
    /\ pc = "start"
    /\ panic = ""
    /\ expected_items = << >>
    /\ params = NoArgs
    /\ bit_vec = << >>
    /\ capacity = 0
    /\ bit_count = 0
    /\ hash_fn_count = 0
    /\ inserted = {}
    /\ answers = {}
    /\ ret = NoRet
    /\ readers = [t \in Readers |-> Idle]

(***************************************************************************)
(* Hashing and bit addressing.                                             *)
(***************************************************************************)

\* get_hashes: h1 is the DefaultHasher (SipHash-1-3, zero key) digest of the
\* item, h2 the digest of the item followed by h1.  The digests of the items
\* of this model (a str hashes as its bytes followed by 0xff), as limbs.
GetHashes(item) ==
    IF item = "seen"                    \* a5a840ad541afaea 4cedeab48a20afb8
    THEN [h1 |-> <<234, 250, 26, 84, 173, 64, 168, 165>>,
          h2 |-> <<184, 175, 32, 138, 180, 234, 237, 76>>]
    ELSE IF item = "item2095"           \* b65c30ad7631a56a a20b35574afde1f8
    THEN [h1 |-> <<106, 165, 49, 118, 173, 48, 92, 182>>,
          h2 |-> <<248, 225, 253, 74, 87, 53, 11, 162>>]
    ELSE IF item = "also seen"          \* a68a246a27f55003 8b883eed2a68db8a
    THEN [h1 |-> <<3, 80, 245, 39, 106, 36, 138, 166>>,
          h2 |-> <<138, 219, 104, 42, 237, 62, 136, 139>>]
    ELSE IF item = "unseen"             \* 9e6a2e01204cf314 d3c7f90664085fe9
    THEN [h1 |-> <<20, 243, 76, 32, 1, 46, 106, 158>>,
          h2 |-> <<233, 95, 8, 100, 6, 249, 199, 211>>]
    ELSE IF item = "item484"            \* 919864b745f4c26a a748ad3eb272a299
    THEN [h1 |-> <<106, 194, 244, 69, 183, 100, 152, 145>>,
          h2 |-> <<153, 162, 114, 178, 62, 173, 72, 167>>]
    ELSE                                \* 2210db91a1c8912a 60021af8fdd919aa
         [h1 |-> <<42, 145, 200, 161, 145, 219, 16, 34>>,
          h2 |-> <<170, 25, 217, 253, 248, 26, 2, 96>>]

\* a % d for a u64 a (limbs) and 0 < d < 2^23, from the most significant limb.
RECURSIVE RemFrom(_, _, _, _)
RemFrom(a, d, i, r) ==
    IF i = 0 THEN r ELSE RemFrom(a, d, i - 1, (r * 256 + a[i]) % d)

Rem(a, d) == RemFrom(a, d, Len(a), 0)

\* get_index: (h1 + h2 * i) % bit_count with wrapping u64 arithmetic; the
\* remainder panics when bit_count is zero.
GetIndex(h1, h2, i) ==
    LET offset == WrappingMul(h2, FromInt(i))
        hash   == WrappingAdd(h1, offset)
    IN  IF bit_count = 0 THEN [panic |-> PanicRemZero]
        ELSE [panic |-> "", index |-> Rem(hash, bit_count)]

\* 1u64 << n for n in 0..63.
Shl1(n) == [j \in 1..8 |-> IF j = n \div 8 + 1 THEN Pow2(n % 8) ELSE 0]

\* A mask computed in 32 bits: 1 << (bit_index % 32).
BitOfNarrow(bit_index) ==
    [vec_index |-> bit_index \div 64, mask |-> Shl1(bit_index % 32)]

\* The pair of get_bit for a bit index: vec_index = bit_index / 64 and
\* bit_offset = 1u64 << (bit_index % 64).
BitOf(bit_index) ==
    [vec_index |-> bit_index \div 64, mask |-> Shl1(bit_index % 64)]

\* get_bit: the word index and the one-bit mask of the i-th hash position.
GetBit(h1, h2, i) ==
    LET bit_index == GetIndex(h1, h2, i)
    IN  IF bit_index.panic # "" THEN bit_index
        ELSE [panic |-> "", vec_index |-> BitOf(bit_index.index).vec_index,
              mask |-> BitOf(bit_index.index).mask]

\* a | b and a & b on bytes (n bits) and on u64 words.
RECURSIVE ByteOr(_, _, _)
ByteOr(a, b, n) ==
    IF n = 0 THEN 0
    ELSE IF a = 0 THEN b
    ELSE IF b = 0 THEN a
    ELSE (IF a % 2 = 1 \/ b % 2 = 1 THEN 1 ELSE 0)
             + 2 * ByteOr(a \div 2, b \div 2, n - 1)

RECURSIVE ByteAnd(_, _, _)
ByteAnd(a, b, n) ==
    IF n = 0 \/ a = 0 \/ b = 0 THEN 0
    ELSE (IF a % 2 = 1 /\ b % 2 = 1 THEN 1 ELSE 0)
             + 2 * ByteAnd(a \div 2, b \div 2, n - 1)

\* A store of b where the code ors b into a: `self.bit_vec[i] = mask`.
WordStore(a, b) == b

\* A wrapping add of b where the code ors it in: `self.bit_vec[i] += mask`.
WordPlus(a, b) == Fix(WrappingAdd(a, b), 8)

\* An exclusive or of b: `self.bit_vec[i] ^= mask`.
WordToggle(a, b) == [j \in 1..8 |-> a[j] + b[j] - 2 * ByteAnd(a[j], b[j], 8)]

WordOr(a, b) == [j \in 1..8 |-> ByteOr(a[j], b[j], 8)]
WordAnd(a, b) == [j \in 1..8 |-> ByteAnd(a[j], b[j], 8)]

PanicIndex == "index out of bounds"

\* The loop of insert from iteration i on, over the word array bv: the array
\* after the loop, or the panic that ends it (indexing bit_vec is checked).
RECURSIVE InsertFrom(_, _, _, _)
InsertFrom(bv, h1, h2, i) ==
    IF i >= hash_fn_count THEN [panic |-> "", bit_vec |-> bv]
    ELSE LET b == GetBit(h1, h2, i)
         IN  IF b.panic # "" THEN [panic |-> b.panic]
             ELSE IF b.vec_index >= Len(bv) THEN [panic |-> PanicIndex]
             ELSE InsertFrom([bv EXCEPT ![b.vec_index + 1] = WordOr(@, b.mask)],
                             h1, h2, i + 1)

\* A contains with || where the code has &&: true at the first set bit,
\* false after the last iteration.
RECURSIVE ContainsAnyFrom(_, _, _)
ContainsAnyFrom(h1, h2, i) ==
    IF i >= hash_fn_count THEN [panic |-> "", value |-> FALSE]
    ELSE LET b == GetBit(h1, h2, i)
         IN  IF b.panic # "" THEN [panic |-> b.panic]
             ELSE IF b.vec_index >= Len(bit_vec) THEN [panic |-> PanicIndex]
             ELSE IF WordAnd(bit_vec[b.vec_index + 1], b.mask) # ZeroWord
                  THEN [panic |-> "", value |-> TRUE]
             ELSE ContainsAnyFrom(h1, h2, i + 1)

\* The loop of contains from iteration i on: false at the first unset bit,
\* true after the last iteration, or a panic.
RECURSIVE ContainsFrom(_, _, _)
ContainsFrom(h1, h2, i) ==
    IF i >= hash_fn_count THEN [panic |-> "", value |-> TRUE]
    ELSE LET b == GetBit(h1, h2, i)
         IN  IF b.panic # "" THEN [panic |-> b.panic]
             ELSE IF b.vec_index >= Len(bit_vec) THEN [panic |-> PanicIndex]
             ELSE IF WordAnd(bit_vec[b.vec_index + 1], b.mask) = ZeroWord
                  THEN [panic |-> "", value |-> FALSE]
             ELSE ContainsFrom(h1, h2, i + 1)

\* An insert into a zeroed array: the words hold the bits of item alone.
InsertIntoZero(item) ==
    InsertFrom([w \in 1..Len(bit_vec) |-> ZeroWord],
               GetHashes(item).h1, GetHashes(item).h2, 0)

\* What insert(item) makes of bit_vec, and what contains(item) returns.
InsertResult(item) ==
    LET h == GetHashes(item) IN InsertFrom(bit_vec, h.h1, h.h2, 0)

ContainsResult(item) ==
    LET h == GetHashes(item) IN ContainsFrom(h.h1, h.h2, 0)

(***************************************************************************)
(* The operations.                                                         *)
(***************************************************************************)

\* BloomFilter::new(n, p) in a build with (checks) or without overflow checks.
NewCall(n, p, checks) ==
    /\ pc = "start"
    /\ expected_items' = n
    /\ params' = p
    /\ \E f \in {New(n, p, checks)} :
           IF f.panic # ""
           THEN /\ pc' = "panicked"
                /\ panic' = f.panic
                /\ UNCHANGED <<bit_vec, capacity, bit_count, hash_fn_count>>
           ELSE /\ pc' = "live"
                /\ panic' = ""
                /\ bit_vec' = [w \in 1..ToInt(f.num_u64s) |-> ZeroWord]
                /\ capacity' = ToInt(f.num_u64s)
                /\ bit_count' = ToInt(f.bit_count)
                /\ hash_fn_count' = ToInt(f.hash_fn_count)
    /\ UNCHANGED <<inserted, answers, ret>>
    /\ UNCHANGED readers

\* insert(&mut self, item).
Insert(item) ==
    /\ pc = "live"
    /\ \E r \in {InsertResult(item)} :
           IF r.panic # ""
           THEN /\ pc' = "panicked"
                /\ panic' = r.panic
                /\ UNCHANGED <<bit_vec, inserted, answers>>
                /\ ret' = [op |-> "insert", item |-> item, value |-> 0]
           ELSE /\ bit_vec' = r.bit_vec
                /\ inserted' = inserted \cup {item}
                /\ answers' = {}
                /\ ret' = [op |-> "insert", item |-> item, value |-> 0]
                /\ UNCHANGED <<pc, panic>>
    /\ UNCHANGED <<ctor_args, geometry>>
    /\ UNCHANGED readers

\* A contains that sets the bits it tests.
ContainsAndSet(item) ==
    /\ pc = "live"
    /\ \E r \in {ContainsResult(item)}, w \in {InsertResult(item)} :
           IF r.panic # ""
           THEN /\ pc' = "panicked"
                /\ panic' = r.panic
                /\ ret' = [op |-> "contains", item |-> item, value |-> 0]
                /\ UNCHANGED <<answers, bit_vec>>
           ELSE /\ ret' = [op |-> "contains", item |-> item, value |-> r.value]
                /\ answers' = answers \cup {<<item, r.value>>}
                /\ bit_vec' = w.bit_vec
                /\ UNCHANGED <<pc, panic>>
    /\ UNCHANGED <<ctor_args, geometry, inserted>>
    /\ UNCHANGED readers

\* contains(&self, item) -> bool.
Contains(item) ==
    /\ pc = "live"
    /\ \E r \in {ContainsResult(item)} :
           IF r.panic # ""
           THEN /\ pc' = "panicked"
                /\ panic' = r.panic
                /\ ret' = [op |-> "contains", item |-> item, value |-> 0]
                /\ UNCHANGED answers
           ELSE /\ ret' = [op |-> "contains", item |-> item, value |-> r.value]
                /\ answers' = answers \cup {<<item, r.value>>}
                /\ UNCHANGED <<pc, panic>>
    /\ UNCHANGED <<ctor_args, geometry, bit_vec, inserted>>
    /\ UNCHANGED readers

\* A clear that empties the vector (Vec::clear) where the code zeroes it.
ClearTruncate ==
    /\ pc = "live"
    /\ bit_vec' = << >>
    /\ inserted' = {}
    /\ answers' = {}
    /\ ret' = [op |-> "clear", item |-> "", value |-> 0]
    /\ UNCHANGED <<pc, panic, ctor_args, geometry>>
    /\ UNCHANGED readers

\* clear(&mut self).
Clear ==
    /\ pc = "live"
    /\ bit_vec' = [w \in 1..Len(bit_vec) |-> ZeroWord]
    /\ inserted' = {}
    /\ answers' = {}
    /\ ret' = [op |-> "clear", item |-> "", value |-> 0]
    /\ UNCHANGED <<pc, panic, ctor_args, geometry>>
    /\ UNCHANGED readers

\* The capacity in words, without the size of a word.
MemoryUsageWords ==
    /\ pc = "live"
    /\ ret' = [op |-> "memory_usage_bytes", item |-> "", value |-> capacity]
    /\ UNCHANGED <<pc, panic, ctor_args, geometry, bit_vec, inserted, answers>>
    /\ UNCHANGED readers

\* memory_usage_bytes(&self) -> usize.
MemoryUsageBytes ==
    /\ pc = "live"
    /\ ret' = [op |-> "memory_usage_bytes", item |-> "", value |-> capacity * 8]
    /\ UNCHANGED <<pc, panic, ctor_args, geometry, bit_vec, inserted, answers>>
    /\ UNCHANGED readers

\* hash_count(&self) -> u32.
HashCountCall ==
    /\ pc = "live"
    /\ ret' = [op |-> "hash_count", item |-> "", value |-> hash_fn_count]
    /\ UNCHANGED <<pc, panic, ctor_args, geometry, bit_vec, inserted, answers>>
    /\ UNCHANGED readers

Next ==
    \/ \E n \in ExpectedItems, p \in Params, checks \in BOOLEAN :
           NewCall(n, p, checks)
    \/ \E item \in Items : Insert(item)
    \/ \E item \in Items : Contains(item)
    \/ Clear
    \/ MemoryUsageBytes
    \/ HashCountCall

Spec == Init /\ [][Next]_vars

(***************************************************************************)
(* Reader threads.  contains, memory_usage_bytes and hash_count take &self, *)
(* so several threads may execute them on one filter at once; insert and   *)
(* clear take &mut self, which the borrow checker grants only while no     *)
(* shared borrow is live.  A contains call is one step per loop iteration  *)
(* (each reads one word of bit_vec); the hashes are local to the thread.   *)
(***************************************************************************)

\* The filter the readers share: new(1, 0.5), one word and two hashes.
ReaderExpectedItems == {<<1>>}
ReaderParams == {FalsePositiveRate(1, 2)}

\* Thread t calls contains(item), memory_usage_bytes() or hash_count().
ReaderCall(t, call, item) ==
    /\ pc = "live"
    /\ readers[t] = Idle
    /\ readers' = [readers EXCEPT ![t] = [Idle EXCEPT !.call = call, !.item = item]]
    /\ UNCHANGED <<pc, panic, ctor_args, geometry, bit_vec, inserted, answers, ret>>

\* The reader r after the iteration of the contains loop at r.i, which found
\* its bit set (found) or not.
AfterIteration(r, found) ==
    IF ~found THEN [r EXCEPT !.done = TRUE, !.found = FALSE]
    ELSE IF r.i + 1 >= hash_fn_count THEN [r EXCEPT !.done = TRUE, !.found = TRUE]
    ELSE [r EXCEPT !.i = r.i + 1]

\* A contains whose iteration sets the bit it finds unset.
ReaderStepMarking(t) ==
    /\ pc = "live"
    /\ readers[t].call # "idle" /\ ~readers[t].done
    /\ \E b \in {GetBit(GetHashes(readers[t].item).h1,
                         GetHashes(readers[t].item).h2, readers[t].i)} :
           /\ readers' = [readers EXCEPT ![t] =
                  AfterIteration(@, WordAnd(bit_vec[b.vec_index + 1], b.mask) # ZeroWord)]
           /\ bit_vec' = [bit_vec EXCEPT ![b.vec_index + 1] = WordOr(@, b.mask)]
    /\ UNCHANGED <<pc, panic, ctor_args, geometry, inserted, answers, ret>>

\* Thread t executes the next step of its call: one iteration of the loop of
\* contains, or the body of an introspection method.
ReaderStep(t) ==
    /\ pc = "live"
    /\ readers[t].call # "idle" /\ ~readers[t].done
    /\ IF readers[t].call = "memory_usage_bytes"
       THEN /\ readers' = [readers EXCEPT ![t] =
                   [@ EXCEPT !.done = TRUE, !.number = capacity * 8]]
            /\ UNCHANGED <<pc, panic>>
       ELSE IF readers[t].call = "hash_count"
       THEN /\ readers' = [readers EXCEPT ![t] =
                   [@ EXCEPT !.done = TRUE, !.number = hash_fn_count]]
            /\ UNCHANGED <<pc, panic>>
       ELSE IF readers[t].i >= hash_fn_count
       THEN /\ readers' = [readers EXCEPT ![t] =
                   [@ EXCEPT !.done = TRUE, !.found = TRUE]]
            /\ UNCHANGED <<pc, panic>>
       ELSE \E b \in {GetBit(GetHashes(readers[t].item).h1,
                              GetHashes(readers[t].item).h2, readers[t].i)} :
                IF b.panic # "" \/ b.vec_index >= Len(bit_vec)
                THEN /\ pc' = "panicked"
                     /\ panic' = (IF b.panic # "" THEN b.panic ELSE PanicIndex)
                     /\ UNCHANGED readers
                ELSE /\ readers' = [readers EXCEPT ![t] =
                            AfterIteration(@,
                                WordAnd(bit_vec[b.vec_index + 1], b.mask) # ZeroWord)]
                     /\ UNCHANGED <<pc, panic>>
    /\ UNCHANGED <<ctor_args, geometry, bit_vec, inserted, answers, ret>>

\* The call of thread t returns; its shared borrow ends.
ReaderReturn(t) ==
    /\ pc = "live"
    /\ readers[t].done
    /\ readers' = [readers EXCEPT ![t] = Idle]
    /\ UNCHANGED <<pc, panic, ctor_args, geometry, bit_vec, inserted, answers, ret>>

ReadersNext ==
    \/ \E n \in ReaderExpectedItems, p \in ReaderParams, checks \in BOOLEAN :
           NewCall(n, p, checks)
    \/ \E item \in Items : NoReaders /\ Insert(item)
    \/ NoReaders /\ Clear
    \/ \E t \in Readers, item \in Items : ReaderCall(t, "contains", item)
    \/ \E t \in Readers, call \in {"memory_usage_bytes", "hash_count"} :
           ReaderCall(t, call, "")
    \/ \E t \in Readers : ReaderStep(t)
    \/ \E t \in Readers : ReaderReturn(t)

ReadersSpec == Init /\ [][ReadersNext]_vars

(***************************************************************************)
(* Properties.                                                             *)
(***************************************************************************)

\* C1: no false negatives.  On a constructed filter every item inserted since
\* the last clear (or since construction) is reported present: contains(x)
\* returns true in every state reached by insert, contains and clear, and a
\* contains call on such an item has returned true.
NoFalseNegatives ==
    pc = "live" =>
        /\ \A x \in inserted :
               \E r \in {ContainsResult(x)} : r.panic = "" /\ r.value = TRUE
        /\ (ret.op = "contains" /\ ret.item \in inserted) => ret.value = TRUE

\* Two items are in the filter, contains has just returned true for one of
\* them, and it has answered false for an item that was not inserted.
NoFalseNegativesWitness ==
    /\ pc = "live"
    /\ Cardinality(inserted) >= 2
    /\ ret.op = "contains" /\ ret.item \in inserted /\ ret.value = TRUE
    /\ \E y \in Items \ inserted : <<y, FALSE>> \in answers

\* C2: an empty filter answers absent.  While nothing has been inserted since
\* construction or since the last clear, every word of bit_vec is zero and
\* contains(x) returns false for every item x.
EmptyFilterAnswersAbsent ==
    (pc = "live" /\ inserted = {}) =>
        /\ \A w \in 1..Len(bit_vec) : bit_vec[w] = ZeroWord
        /\ \A x \in Items :
               \E r \in {ContainsResult(x)} : r.panic = "" /\ r.value = FALSE

\* The arguments new rejects according to C3: expected_items == 0, a rate
\* p <= 0.0 or p >= 1.0, a hash count k == 0.
RejectedArgs ==
    \/ Len(expected_items) = 0
    \/ /\ params.kind = "FalsePositiveRate"
       /\ params.p[2] > 0
       /\ (params.p[1] <= 0 \/ params.p[1] >= params.p[2])
    \/ params.kind = "HashCount" /\ params.k = 0

\* C3: parameter rejection.  Once new has been called with expected_items == 0
\* (whatever the sizing), with a rate p <= 0.0 or p >= 1.0, or with a hash
\* count of 0, the call has panicked with the message of the assert! that
\* failed and there is no filter.
ParameterRejection ==
    (pc # "start" /\ RejectedArgs) =>
        /\ pc = "panicked"
        /\ ret = NoRet
        /\ Len(bit_vec) = 0 /\ bit_count = 0
        /\ panic = (IF Len(expected_items) = 0 THEN PanicExpectedItems
                    ELSE IF params.kind = "HashCount" THEN PanicHashCount
                    ELSE PanicRate)

\* new(100, HashCount(0)) has panicked.
ParameterRejectionWitness ==
    /\ pc = "panicked"
    /\ expected_items = <<100>>
    /\ params = HashCount(0)
    /\ panic = PanicHashCount

\* The arguments C4 and C5 call valid: expected_items >= 1 with a rate
\* strictly between 0 and 1, or with a hash count k >= 1.
ValidArgs ==
    /\ Len(expected_items) >= 1
    /\ \/ /\ params.kind = "FalsePositiveRate"
          /\ params.p[2] > 0 /\ 0 < params.p[1] /\ params.p[1] < params.p[2]
       \/ params.kind = "HashCount" /\ params.k >= 1

\* new itself panicked: no call on a filter was ever made.
ConstructionFailed == pc = "panicked" /\ ret.op = "none"

\* C4: sizing validity.  Once new has been called with valid arguments, it has
\* succeeded, and in every state from then on bit_count > 0, bit_count is a
\* multiple of 64, bit_vec has exactly bit_count / 64 words, and
\* hash_fn_count >= 1.
SizingValidity ==
    (pc # "start" /\ ValidArgs) =>
        /\ ~ConstructionFailed
        /\ bit_count > 0
        /\ bit_count % 64 = 0
        /\ Len(bit_vec) * 64 = bit_count
        /\ hash_fn_count >= 1

\* C5: the operations on a filter never fail.  On a filter constructed from
\* valid arguments no call has panicked, bit_count is not zero, insert and
\* contains complete for every item, and for every item and every
\* i in 0..hash_fn_count-1 the index is in [0, bit_count) and its word is
\* inside bit_vec.
OperationsNeverFail ==
    (pc # "start" /\ ValidArgs /\ ~ConstructionFailed) =>
        /\ pc = "live"
        /\ bit_count # 0
        /\ \A item \in Items :
               /\ \E r \in {InsertResult(item)} : r.panic = ""
               /\ \E r \in {ContainsResult(item)} : r.panic = ""
               /\ \A i \in 0..(hash_fn_count - 1) :
                      \E b \in {GetIndex(GetHashes(item).h1, GetHashes(item).h2, i)} :
                          /\ b.panic = ""
                          /\ b.index >= 0 /\ b.index < bit_count
                          /\ b.index \div 64 < Len(bit_vec)

\* C6: a fixed hash count is preserved.  A filter constructed with HashCount(k)
\* has hash_fn_count = k in every state, and hash_count() has returned k.
HashCountPreserved ==
    (pc = "live" /\ params.kind = "HashCount") =>
        /\ hash_fn_count = params.k
        /\ ret.op = "hash_count" => ret.value = params.k

\* hash_count() has just returned 7 on a filter made with HashCount(7) that
\* holds two items.
HashCountPreservedWitness ==
    /\ pc = "live"
    /\ params = HashCount(7)
    /\ Cardinality(inserted) >= 2
    /\ ret.op = "hash_count" /\ ret.value = 7

\* The answers contains has given since the last insert or clear are those
\* of one function of the item: no item was answered both ways, and each
\* answer is what contains returns in the present state.
AnswersAgree ==
    \A a \in answers :
        /\ \A b \in answers : a[1] = b[1] => a[2] = b[2]
        /\ pc = "live" =>
               \E r \in {ContainsResult(a[1])} : r.panic = "" /\ r.value = a[2]

\* C7: contains is a pure, deterministic read.  A contains call leaves
\* bit_vec, bit_count and hash_fn_count as they were, and repeated calls for
\* an item, with only contains and introspection calls in between, return the
\* same result.
ContainsIsPure ==
    /\ []AnswersAgree
    /\ [][ret'.op = "contains" =>
              /\ bit_vec' = bit_vec
              /\ bit_count' = bit_count
              /\ hash_fn_count' = hash_fn_count]_vars

\* contains has answered true for an inserted item and false for another
\* item, and an introspection call came after.
ContainsIsPureWitness ==
    /\ pc = "live"
    /\ \E x \in inserted : <<x, TRUE>> \in answers
    /\ \E y \in Items \ inserted : <<y, FALSE>> \in answers
    /\ ret.op = "memory_usage_bytes"

\* C8: the geometry is immutable.  No call on a filter changes bit_count,
\* hash_fn_count or the length of bit_vec.
GeometryImmutable ==
    [][pc = "live" =>
           /\ bit_count' = bit_count
           /\ hash_fn_count' = hash_fn_count
           /\ Len(bit_vec') = Len(bit_vec)]_vars

\* new(100, HashCount(7)) made 16 words; items were inserted and the last
\* call was an insert.
GeometryImmutableWitness ==
    /\ pc = "live"
    /\ expected_items = <<100>> /\ params = HashCount(7)
    /\ ret.op = "insert" /\ Cardinality(inserted) >= 2
    /\ Len(bit_vec) = 16 /\ bit_count = 1024 /\ hash_fn_count = 7

\* Scenario A: the filter of new(100, FilterParams::FalsePositiveRate(0.01)).
ScenarioA ==
    /\ pc = "live"
    /\ expected_items = <<100>>
    /\ params = FalsePositiveRate(1, 100)

\* bits >= 100 * k / ln 2, as bits * ln 2 >= 100 * k in fixed point.
HoldsBitsFor(bits, k) ==
    BigGE(BigMul(FromInt(bits), LN_2), Q64(FromInt(100 * k)))

\* bits >= -100 * ln(0.01) / (ln 2)^2, as bits * (ln 2)^2 >= -100 * ln(0.01).
HoldsOptimalBits(bits) ==
    BigGE(BigMul(FromInt(bits), BigMul(LN_2, LN_2)),
          Q64(BigMul(<<100>>, NegLn(<<1, 100>>))))

\* C9 as stated: in Scenario A hash_count() > 0 and the storage holds at
\* least 100 * k / ln 2 bits, k the filter's hash count, rounded up to the
\* word boundary (bit_count is a multiple of 64, so it holds the rounded
\* number exactly when it holds the number itself).
ScenarioAStorageForK ==
    ScenarioA =>
        /\ hash_fn_count > 0
        /\ bit_count % 64 = 0
        /\ Len(bit_vec) * 64 = bit_count
        /\ HoldsBitsFor(bit_count, hash_fn_count)

\* C9: in Scenario A hash_count() is 7 and the storage is 15 words, 960 bits:
\* the least multiple of 64 that holds -100 * ln(0.01) / (ln 2)^2 bits (959
\* after ceil).  That is fewer than 100 * 7 / ln 2 bits.
ScenarioAStorage ==
    ScenarioA =>
        /\ hash_fn_count = 7
        /\ Len(bit_vec) = 15 /\ bit_count = 960
        /\ HoldsOptimalBits(bit_count)
        /\ ~HoldsOptimalBits(bit_count - 64)
        /\ ~HoldsBitsFor(bit_count, hash_fn_count)
        /\ ret.op = "hash_count" => ret.value = 7

\* hash_count() has just returned on the filter of Scenario A.
ScenarioAStorageWitness ==
    /\ ScenarioA
    /\ ret.op = "hash_count" /\ ret.value > 0
    /\ Len(bit_vec) = 15

\* C10: memory_usage_bytes() returns the number of words of bit_vec times 8,
\* which is bit_count / 8; no call on the filter changes that value, whatever
\* bits are set.
MemoryUsageIsWordBytes ==
    /\ [](pc = "live" =>
            /\ capacity = Len(bit_vec)
            /\ Len(bit_vec) * 8 * 8 = bit_count
            /\ ret.op = "memory_usage_bytes" =>
                   /\ ret.value = Len(bit_vec) * 8
                   /\ ret.value = bit_count \div 8)
    /\ [][pc = "live" => capacity' * 8 = capacity * 8]_vars

\* memory_usage_bytes() has returned 120 on the 15-word filter with items in
\* it.
MemoryUsageIsWordBytesWitness ==
    /\ pc = "live"
    /\ inserted # {}
    /\ \E w \in 1..Len(bit_vec) : bit_vec[w] # ZeroWord
    /\ ret.op = "memory_usage_bytes" /\ ret.value = 120
    /\ Len(bit_vec) = 15

\* Every bit set in word a is set in word b.
WordWithin(a, b) == \A j \in 1..8 : ByteAnd(a[j], b[j], 8) = a[j]

\* C11: bits are monotone between clears.  In every step on a filter that is
\* not a clear (insert, contains, memory_usage_bytes, hash_count), bit_vec
\* keeps its length and every bit set before the step is set after it.
BitsMonotone ==
    [][(pc = "live" /\ ret'.op # "clear") =>
           /\ Len(bit_vec') = Len(bit_vec)
           /\ \A w \in 1..Len(bit_vec) : WordWithin(bit_vec[w], bit_vec'[w])]_vars

\* All the items of the model were inserted, the last call was an insert,
\* and bits are set.
BitsMonotoneWitness ==
    /\ pc = "live"
    /\ inserted = Items
    /\ ret.op = "insert"
    /\ \E w \in 1..Len(bit_vec) : bit_vec[w] # ZeroWord

\* The bit at position index of bit_vec is set.
BitIsSet(index) == Bit(bit_vec[index \div 64 + 1], index % 64) = 1

\* All of the k bits of item are set: for every i in 0..hash_fn_count-1 the
\* bit at (h1 + h2 * i mod 2^64) mod bit_count.
AllBitsSet(item) ==
    \A i \in 0..(hash_fn_count - 1) :
        BitIsSet(GetIndex(GetHashes(item).h1, GetHashes(item).h2, i).index)

\* C12: contains(x) returns true if and only if all k bits of x are set: the
\* value the short-circuiting loop returns is that of testing all k bits,
\* for every item in every state, and for the call that has just returned.
ContainsIffAllBits ==
    (pc = "live" /\ bit_count > 0) =>
        /\ \A x \in Items :
               \E r \in {ContainsResult(x)} :
                   r.panic = "" /\ (r.value <=> AllBitsSet(x))
        /\ ret.op = "contains" => (ret.value <=> AllBitsSet(ret.item))

\* contains has returned false for an item whose first bit is set (the loop
\* went past iteration 0 before it found an unset bit), and true for another.
ContainsIffAllBitsWitness ==
    /\ pc = "live" /\ bit_count > 0
    /\ ret.op = "contains" /\ ret.value = FALSE
    /\ BitIsSet(GetIndex(GetHashes(ret.item).h1, GetHashes(ret.item).h2, 0).index)
    /\ \E a \in answers : a[2] = TRUE

\* C13: word rounding is exact.  Right after new was called with valid
\* arguments, with m the u64 the sizing step produced (1 <= m <= 2^64 - 1):
\* neither m + 63 nor words * 64 overflowed, bit_vec has ceil(m / 64) words,
\* bit_count is that number times 64, bit_count >= m, bit_count - m < 64 and
\* bit_count > 0.
WordRoundingExact ==
    (pc # "start" /\ ValidArgs /\ ret.op = "none") =>
        \E mk \in {Sizing(expected_items, params)} :
            /\ pc = "live"
            /\ BigEq(FromInt(Len(bit_vec)), BigCeilDiv(mk.m, <<64>>))
            /\ bit_count = Len(bit_vec) * 64
            /\ BigGE(FromInt(bit_count), mk.m)
            /\ ~BigGE(FromInt(bit_count), BigAdd(mk.m, <<64>>))
            /\ bit_count > 0

\* The index set of item: the bit positions
\* (h1 + h2 * i mod 2^64) mod bit_count for i in 0..hash_fn_count-1.
IndexSet(item) ==
    {GetIndex(GetHashes(item).h1, GetHashes(item).h2, i).index :
         i \in 0..(hash_fn_count - 1)}

\* The union of the index sets of the items of S.
IndexUnion(S) == UNION {IndexSet(x) : x \in S}

\* C14: insert is idempotent.  An insert(x) that returns on a filter into
\* which x was already inserted, or on which all k bits of x are already set
\* (contains(x) is true), leaves bit_vec and the geometry exactly as they were.
InsertIdempotent ==
    [][\A x \in Items :
           (/\ pc = "live" /\ pc' = "live"
            /\ ret'.op = "insert" /\ ret'.item = x
            /\ \/ x \in inserted
               \/ \E r \in {ContainsResult(x)} : r.panic = "" /\ r.value)
           => (bit_vec' = bit_vec /\ geometry' = geometry)]_vars

\* The last call inserted an item all of whose bits are also bits of the
\* other inserted items.
InsertIdempotentWitness ==
    /\ pc = "live" /\ bit_count > 0
    /\ ret.op = "insert"
    /\ Cardinality(inserted) >= 2
    /\ IndexSet(ret.item) \subseteq IndexUnion(inserted \ {ret.item})

\* The positions of the bits that are set in byte j of word w of bit_vec.
SetBitsOfByte(w, j) ==
    IF bit_vec[w][j] = 0 THEN {}
    ELSE {(w - 1) * 64 + (j - 1) * 8 + b :
              b \in {c \in 0..7 : (bit_vec[w][j] \div Pow2(c)) % 2 = 1}}

\* The set of set bit positions of bit_vec.
SetBits == UNION {SetBitsOfByte(w, j) : w \in 1..Len(bit_vec), j \in 1..8}

\* C15: exact state characterisation.  In every state of a filter the set of
\* set bit positions is exactly the union of the index sets of the items
\* inserted since the last clear (or since construction), and contains(y) is
\* true exactly when the index set of y lies within that union.
StateIsUnionOfIndexSets ==
    pc = "live" =>
        \E U \in {IndexUnion(inserted)} :
            /\ SetBits = U
            /\ bit_count > 0 =>
                   \A y \in Items :
                       \E r \in {ContainsResult(y)} :
                           /\ r.panic = ""
                           /\ r.value <=> (IndexSet(y) \subseteq U)

\* Two items are in a 15-word filter with bits set in more than one word,
\* and contains has answered false for a third item.
StateIsUnionOfIndexSetsWitness ==
    /\ pc = "live"
    /\ Len(bit_vec) = 15
    /\ Cardinality(inserted) = 2
    /\ Cardinality({w \in 1..Len(bit_vec) : bit_vec[w] # ZeroWord}) >= 2
    /\ Cardinality(SetBits) > 7
    /\ \E y \in Items \ inserted : <<y, FALSE>> \in answers

\* The word array after insert(item) on the array bv.
InsertInto(bv, item) ==
    InsertFrom(bv, GetHashes(item).h1, GetHashes(item).h2, 0).bit_vec

\* The word array after inserting into bv, in the order of ItemAt and once
\* each, the items of S among ItemAt[n], ItemAt[n + 1], ...
RECURSIVE InsertInOrder(_, _, _)
InsertInOrder(bv, S, n) ==
    IF n > Len(ItemAt) THEN bv
    ELSE IF ItemAt[n] \in S THEN InsertInOrder(InsertInto(bv, ItemAt[n]), S, n + 1)
    ELSE InsertInOrder(bv, S, n + 1)

\* C16: insertion order does not matter.  In whatever order, and however
\* often, the items of `inserted` were inserted since the last clear, bit_vec
\* is the array that inserting them once each in one fixed order into the
\* zeroed array gives: filters of one geometry that received the same items
\* have the same words, and so the same contains answers.
InsertionOrderIrrelevant ==
    pc = "live" =>
        bit_vec = InsertInOrder([w \in 1..Len(bit_vec) |-> ZeroWord], inserted, 1)

\* The one-word filter holds all the items, with several bits in its word,
\* and the item inserted last is the first of the fixed order.
InsertionOrderIrrelevantWitness ==
    /\ pc = "live"
    /\ Len(bit_vec) = 1
    /\ inserted = Items
    /\ ret.op = "insert" /\ ret.item = ItemAt[1]
    /\ Cardinality(SetBits) >= 3

\* m = ceil(-(n * ln p) / (ln 2)^2): m is the least integer with
\* m * (ln 2)^2 >= -(n * ln p).
IsRateM(m, n, p) ==
    /\ BigGE(BigMul(FromInt(m), BigMul(LN_2, LN_2)), Q64(BigMul(n, NegLn(p))))
    /\ ~BigGE(BigMul(FromInt(m - 1), BigMul(LN_2, LN_2)), Q64(BigMul(n, NegLn(p))))

\* k = ceil((m / n) * ln 2): k is the least integer with k * n >= m * ln 2.
IsRateK(k, m, n) ==
    /\ BigGE(Q64(BigMul(FromInt(k), n)), BigMul(FromInt(m), LN_2))
    /\ ~BigGE(Q64(BigMul(FromInt(k - 1), n)), BigMul(FromInt(m), LN_2))

\* C17: rate-based sizing.  A filter that new has just made from a rate p
\* has the words of some m >= 1 (bit_count - 64 < m <= bit_count) with
\* m = ceil(-(n * ln p) / (ln 2)^2) and hash_fn_count = ceil((m / n) * ln 2)
\* for that unrounded m; for n = 100 and p = 0.01 it has exactly 15 words,
\* bit_count = 960, and hash_fn_count > 0.
RateSizing ==
    (pc = "live" /\ ret.op = "none" /\ params.kind = "FalsePositiveRate") =>
        /\ Len(bit_vec) * 64 = bit_count
        /\ \E m \in Max2(1, bit_count - 63)..bit_count :
               /\ IsRateM(m, expected_items, params.p)
               /\ IsRateK(hash_fn_count, m, expected_items)
        /\ (expected_items = <<100>> /\ params.p = <<1, 100>>) =>
               (Len(bit_vec) = 15 /\ bit_count = 960 /\ hash_fn_count > 0)

\* Exactly one bit of the word mask is set: one byte is a power of two and
\* the other bytes are zero.
OneBitSet(mask) ==
    \E j \in 1..8 :
        /\ mask[j] \in {1, 2, 4, 8, 16, 32, 64, 128}
        /\ \A i \in (1..8) \ {j} : mask[i] = 0

\* The word whose only set bit is bit c (0..63), as the number 2^c.
OneBitWord(c) == Fix(ShiftLimbs(<<Pow2(c % 8)>>, c \div 8), 8)

\* The pairs get_bit yields for the indices 0..bit_count-1.
BitImage == {BitOf(index) : index \in 0..(bit_count - 1)}

\* C19: bit addressing is a bijection.  On a filter (after new and after each
\* insert), get_bit maps every index in [0, bit_count) to word index / 64,
\* inside bit_vec, and to a mask with exactly one bit set, bit index mod 64;
\* distinct indices get distinct pairs, and the pairs are exactly the bits of
\* the words of bit_vec, each bit the image of one index.
BitAddressingBijective ==
    (pc = "live" /\ ret.op \in {"none", "insert"}) =>
        /\ \A index \in 0..(bit_count - 1) :
               \E b \in {BitOf(index)} :
                   /\ b.vec_index * 64 <= index /\ index < (b.vec_index + 1) * 64
                   /\ b.vec_index < Len(bit_vec)
                   /\ OneBitSet(b.mask)
                   /\ Bit(b.mask, index - b.vec_index * 64) = 1
        /\ Cardinality(BitImage) = bit_count
        /\ BitImage = {[vec_index |-> w, mask |-> OneBitWord(c)] :
                           w \in 0..(Len(bit_vec) - 1), c \in 0..63}

\* An insert has just set bits of the 16-word filter through get_bit.
BitAddressingBijectiveWitness ==
    /\ pc = "live"
    /\ ret.op = "insert"
    /\ Len(bit_vec) = 16 /\ bit_count = 1024
    /\ Cardinality(SetBits) >= 7

\* The result reader r holds is the one its call returns when it runs alone
\* on the filter as it is now.
SequentialResult(r) ==
    IF r.call = "contains"
    THEN \E c \in {ContainsResult(r.item)} : c.panic = "" /\ c.value = r.found
    ELSE IF r.call = "memory_usage_bytes" THEN r.number = capacity * 8
    ELSE r.number = hash_fn_count

\* C18: concurrent readers are safe.  While contains and introspection calls
\* of several threads interleave their steps and no insert or clear runs,
\* every finished call holds the result it returns when run alone, no call
\* panics, and no step taken while a call is in progress changes bit_vec or
\* the geometry.
ConcurrentReadersSafe ==
    /\ [](pc = "live" => \A t \in Readers : readers[t].done => SequentialResult(readers[t]))
    /\ [](~NoReaders => pc = "live")
    /\ [][~NoReaders => (bit_vec' = bit_vec /\ geometry' = geometry)]_vars

\* Two threads are inside contains at once, one past iteration 0 and one
\* finished with false, on a filter that holds an item.
ConcurrentReadersSafeWitness ==
    /\ pc = "live" /\ inserted # {}
    /\ \E t, u \in Readers :
           /\ t # u
           /\ readers[t].call = "contains" /\ ~readers[t].done /\ readers[t].i >= 1
           /\ readers[u].call = "contains" /\ readers[u].done /\ ~readers[u].found

====
